---- MODULE Spec2Model ----
(***************************************************************************)
(* Juice_Product_Mix_Optimization.ipynb: the product-mix integer program   *)
(* built with PuLP, solved, and re-solved after changeRHS.                 *)
(*                                                                         *)
(* The notebook's code cells are the steps of the state machine:           *)
(*   cell 5  (lines 139-148)  budgets, LpProblem, juice_vars               *)
(*   cell 7  (line  164)      objective "Total_Profit"                     *)
(*   cell 9  (lines 180-183)  constraints "Machine_Time", "Labor_Time"     *)
(*   cell 11 (lines 220-226)  model.solve(); results                       *)
(*   cell 15 (lines 289-296)  changeRHS; model.solve(); sensitivity_results*)
(* Cells 11 and 15 can be run again once the model is built.               *)
(***************************************************************************)
EXTENDS Integers, Sequences, FiniteSets, TLC

VARIABLES
    data,                 \* the product table (DataFrame indexed by Product)
    max_machine_time,     \* cell 5
    max_labor_time,       \* cell 5
    pc,                   \* the statement the notebook runs next
    juice_vars,           \* product -> LpVariable (name, lowBound, upBound, cat)
    varValue,             \* product -> LpVariable.varValue; <<>> while all are None
    objective,            \* model.objective: <<>> or <<[name, coeffs]>>
    constraints,          \* model.constraints: name -> [lhs, rhs]
    status,               \* LpStatus[model.status]
    results,              \* cell 11's dict: <<>> or <<record>>
    sensitivity_results,  \* cell 15's dict: <<>> or <<record>>
    stdout,               \* the status lines cell 11 has printed
    request,              \* cell 15's literals: [name, increase]
    runs,                 \* number of runs of cells 11 and 15 so far
    solveLog,             \* history: one entry per model.solve()
    resultsAt,            \* history: index in solveLog of the solve behind results
    sensitivityAt,        \* history: index in solveLog behind sensitivity_results
    lastChange,           \* history: <<>> or <<[name, rhs]>> of the last changeRHS
    raised                \* the exceptions that have ended a cell, in order

vars == <<data, max_machine_time, max_labor_time, pc, juice_vars, varValue,
          objective, constraints, status, results, sensitivity_results, stdout,
          request, runs, solveLog, resultsAt, sensitivityAt, lastChange,
          raised>>

----------------------------------------------------------------------------
(* Bounds of the explored inputs *)

MaxCoef == 1      \* Profit, MachineTime, LaborTime of a generic row are in 0..MaxCoef
MaxCap == 1       \* MaxUnits of a generic row is in 0..MaxCap
MaxBudget == 1    \* generic budgets are in 0..MaxBudget
MaxRuns == 2      \* runs of cells 11 and 15 in one behaviour

----------------------------------------------------------------------------
(* The notebook's literals *)

MachineBudget == 240
LaborBudget == 220
MachineIncrease == 20

AppleJuice == <<"A","p","p","l","e"," ","J","u","i","c","e">>
OrangeJuice == <<"O","r","a","n","g","e"," ","J","u","i","c","e">>
MixedFruitJuice ==
    <<"M","i","x","e","d"," ","F","r","u","i","t"," ","J","u","i","c","e">>

\* The table the notebook loads from juice_data.xlsx
NotebookData ==
    (AppleJuice :> [Profit |-> 25, MachineTime |-> 3, LaborTime |-> 2, MaxUnits |-> 60])
    @@ (OrangeJuice :> [Profit |-> 30, MachineTime |-> 2, LaborTime |-> 3, MaxUnits |-> 60])
    @@ (MixedFruitJuice :> [Profit |-> 40, MachineTime |-> 4, LaborTime |-> 4, MaxUnits |-> 60])

\* Generic tables of two products: one row with every field within the bounds,
\* one row of unit profit that uses one unit of each resource
GenericRows ==
    [Profit : 0..MaxCoef, MachineTime : 0..MaxCoef, LaborTime : 0..MaxCoef,
     MaxUnits : 0..MaxCap]

UnitRows ==
    [Profit : {1}, MachineTime : {1}, LaborTime : {1}, MaxUnits : 0..MaxCap]

GenericData ==
    {(AppleJuice :> a) @@ (OrangeJuice :> o) : a \in GenericRows, o \in UnitRows}

\* a product name that differs from Apple Juice only where replace() writes
AppleUnderscoreJuice == <<"A","p","p","l","e","_","J","u","i","c","e">>

\* Tables nothing has vetted: two products out of three names, caps that may
\* be negative
AnyRows ==
    [Profit : 0..MaxCoef, MachineTime : 0..MaxCoef, LaborTime : 0..MaxCoef,
     MaxUnits : (0 - 1)..MaxCap]

AnyUnitRows ==
    [Profit : {1}, MachineTime : {1}, LaborTime : {1}, MaxUnits : (0 - 1)..MaxCap]

AnyData ==
    {(n[1] :> a) @@ (n[2] :> o) :
        n \in {<<AppleJuice, OrangeJuice>>, <<AppleJuice, AppleUnderscoreJuice>>,
               <<AppleUnderscoreJuice, OrangeJuice>>},
        a \in AnyRows, o \in AnyUnitRows}

ConstraintNames == {"Machine_Time", "Labor_Time"}

\* a name no constraint of the model has
OtherName == "Storage_Space"

\* The literals cell 15 may hold: the name it looks up in model.constraints,
\* and an increase that tightens the budget, keeps it or relaxes it
GenericRequests ==
    [name : ConstraintNames \cup {OtherName}, increase : {0 - 1, 0, 1}]

NotebookRequest == [name |-> "Machine_Time", increase |-> MachineIncrease]

----------------------------------------------------------------------------
(* Helpers *)

\* str.replace(' ', '_')
Sanitize(product) ==
    [i \in DOMAIN product |-> IF product[i] = " " THEN "_" ELSE product[i]]

RECURSIVE SumOver(_, _, _)
SumOver(S, coeffs, q) ==
    IF S = {} THEN 0
    ELSE LET p == CHOOSE x \in S : TRUE
         IN coeffs[p] * q[p] + SumOver(S \ {p}, coeffs, q)

\* value of the affine expression sum(coeffs[p] * var[p]) at the assignment q
Dot(coeffs, q) == SumOver(DOMAIN coeffs, coeffs, q)

----------------------------------------------------------------------------
(* Cells 5, 7, 9: the model *)

\* variant: the upper bound is off by one
LpVariableLoose(product, row) ==
    [name |-> Sanitize(product), lowBound |-> 0, upBound |-> row.MaxUnits + 1,
     cat |-> "Integer"]

\* LpVariable(product.replace(' ', '_'), lowBound=0, upBound=MaxUnits, cat='Integer')
LpVariable(product, row) ==
    [name |-> Sanitize(product), lowBound |-> 0, upBound |-> row.MaxUnits,
     cat |-> "Integer"]

\* juice_vars = {product: LpVariable(...) for product in data.index}
JuiceVars(d) == [product \in DOMAIN d |-> LpVariable(product, d[product])]

\* sum(data.loc[p, 'Profit'] * juice_vars[p] for p in data.index), "Total_Profit"
TotalProfit(d) ==
    [name |-> "Total_Profit", coeffs |-> [p \in DOMAIN d |-> d[p].Profit]]

\* sum(data.loc[p, 'MachineTime'] * juice_vars[p] for p in data.index)
MachineLhs(d) == [p \in DOMAIN d |-> d[p].MachineTime]

\* variant: the labor constraint built from the MachineTime column
LaborLhsWrongColumn(d) == [p \in DOMAIN d |-> d[p].MachineTime]

\* sum(data.loc[p, 'LaborTime'] * juice_vars[p] for p in data.index)
LaborLhs(d) == [p \in DOMAIN d |-> d[p].LaborTime]

\* the two "model += lhs <= rhs, name" statements of cell 9
BothConstraints(d, machineRhs, laborRhs) ==
    ("Machine_Time" :> [lhs |-> MachineLhs(d), rhs |-> machineRhs])
    @@ ("Labor_Time" :> [lhs |-> LaborLhs(d), rhs |-> laborRhs])

\* variant: the new right-hand side lands on every constraint
SetRhsEverywhere(cons, name, newRhs) ==
    [c \in DOMAIN cons |-> [cons[c] EXCEPT !.rhs = newRhs]]

\* variant: the new right-hand side is stored one too large
SetRhsOffByOne(cons, name, newRhs) == [cons EXCEPT ![name].rhs = newRhs + 1]

\* variant: the new right-hand side lands on a copy, the model keeps its own
SetRhsOnCopy(cons, name, newRhs) == cons

\* model.constraints[name].changeRHS(newRhs)
SetRhs(cons, name, newRhs) == [cons EXCEPT ![name].rhs = newRhs]

\* variant: the lookup of a name never fails
HasKeyAlways(cons, name) == TRUE

\* model.constraints[name]: a dict lookup, KeyError unless the name is a key
HasKey(cons, name) == name \in DOMAIN cons

Rhs(cons) == [c \in DOMAIN cons |-> cons[c].rhs]

----------------------------------------------------------------------------
(* model.solve(): the CBC solver behind PuLP, by its contract.  It returns   *)
(* status Optimal with some profit-maximal assignment among the integer     *)
(* assignments within the variables' bounds that satisfy every constraint,  *)
(* and status Infeasible, with values it does not specify, when there is    *)
(* no such assignment.                                                      *)

SetMax(S) == CHOOSE m \in S : \A y \in S : y <= m
SetMin(S) == CHOOSE m \in S : \A y \in S : m <= y

\* the integer assignments within [lowBound, upBound] of every variable
Box(jv) ==
    IF DOMAIN jv = {} THEN {<<>>}
    ELSE LET lo == SetMin({jv[p].lowBound : p \in DOMAIN jv})
             hi == SetMax({jv[p].upBound : p \in DOMAIN jv})
         IN {q \in [DOMAIN jv -> lo..hi] :
                \A p \in DOMAIN jv : jv[p].lowBound <= q[p] /\ q[p] <= jv[p].upBound}

Satisfies(cons, q) == \A c \in DOMAIN cons : Dot(cons[c].lhs, q) <= cons[c].rhs

Feasible(jv, cons) == {q \in Box(jv) : Satisfies(cons, q)}

\* variant: any feasible assignment, maximal or not
AnyFeasible(obj, F) == F

\* the assignments of F with the largest objective value
Optima(obj, F) ==
    LET best == SetMax({Dot(obj.coeffs, q) : q \in F})
    IN {q \in F : Dot(obj.coeffs, q) = best}

\* what the variables may hold after a solve that found no solution
Leftover(jv) == Box(jv) \cup {[p \in DOMAIN jv |-> 0]}

SolverOutcomes(jv, obj, cons) ==
    LET F == Feasible(jv, cons)
    IN IF F = {}
       THEN {[status |-> "Infeasible", values |-> g] : g \in Leftover(jv)}
       ELSE {[status |-> "Optimal", values |-> q] : q \in Optima(obj, F)}

\* The notebook's own model, before and after cell 15, solved once
NotebookConstraints(machineRhs) ==
    BothConstraints(NotebookData, machineRhs, LaborBudget)

NotebookOutcomes ==
    SolverOutcomes(JuiceVars(NotebookData), TotalProfit(NotebookData),
                   NotebookConstraints(MachineBudget))

NotebookOutcomesAfter ==
    SolverOutcomes(JuiceVars(NotebookData), TotalProfit(NotebookData),
                   NotebookConstraints(MachineBudget + MachineIncrease))

\* model.solve(): SolverOutcomes, with the notebook's two models looked up
CbcSolve(jv, obj, cons) ==
    IF jv = JuiceVars(NotebookData) /\ obj = TotalProfit(NotebookData)
       /\ cons = NotebookConstraints(MachineBudget)
    THEN NotebookOutcomes
    ELSE IF jv = JuiceVars(NotebookData) /\ obj = TotalProfit(NotebookData)
            /\ cons = NotebookConstraints(MachineBudget + MachineIncrease)
    THEN NotebookOutcomesAfter
    ELSE SolverOutcomes(jv, obj, cons)

\* value(model.objective)
ObjectiveValue(obj, vv) == Dot(obj.coeffs, vv)

\* {p: juice_vars[p].value() for p in data.index} plus the 'Total Profit' entry
ExtractDict(d, obj, vv) ==
    [quantities |-> [p \in DOMAIN d |-> vv[p]],
     Total_Profit |-> ObjectiveValue(obj, vv)]

\* variant: cell 15 reuses the name of cell 11's dict
Cell15TargetReused == "results"

\* the name cell 15 binds its dict to
Cell15Target == "sensitivity_results"

----------------------------------------------------------------------------
(* The state machine *)

InitRest ==
    /\ pc = "cell5"
    /\ juice_vars = <<>>
    /\ varValue = <<>>
    /\ objective = <<>>
    /\ constraints = <<>>
    /\ status = "Not Solved"
    /\ results = <<>>
    /\ sensitivity_results = <<>>
    /\ stdout = <<>>
    /\ runs = 0
    /\ solveLog = <<>>
    /\ resultsAt = 0
    /\ sensitivityAt = 0
    /\ lastChange = <<>>
    /\ raised = <<>>

Init ==
    /\ data \in GenericData
    /\ max_machine_time \in 0..MaxBudget
    /\ max_labor_time \in 0..MaxBudget
    /\ request \in GenericRequests
    /\ InitRest

InitNotebook ==
    /\ data = NotebookData
    /\ max_machine_time = MachineBudget
    /\ max_labor_time = LaborBudget
    /\ request = NotebookRequest
    /\ InitRest

\* what no cell assigns: the table and the literals of cells 5 and 15
inputs == <<data, max_machine_time, max_labor_time, request>>

\* the history variables
history == <<solveLog, resultsAt, sensitivityAt, lastChange>>

\* cell 5
DefineModel ==
    /\ pc = "cell5"
    /\ juice_vars' = JuiceVars(data)
    /\ pc' = "cell7"
    /\ UNCHANGED <<inputs, raised, varValue, objective, constraints, status, results,
                   sensitivity_results, stdout, runs, history>>

\* cell 7
SetObjective ==
    /\ pc = "cell7"
    /\ objective' = <<TotalProfit(data)>>
    /\ pc' = "cell9"
    /\ UNCHANGED <<inputs, raised, juice_vars, varValue, constraints, status, results,
                   sensitivity_results, stdout, runs, history>>

\* cell 9
AddConstraints ==
    /\ pc = "cell9"
    /\ constraints' = BothConstraints(data, max_machine_time, max_labor_time)
    /\ pc' = "ready"
    /\ UNCHANGED <<inputs, raised, juice_vars, varValue, objective, status, results,
                   sensitivity_results, stdout, runs, history>>

\* model.solve(): sets model.status and every variable's varValue
ModelSolve ==
    \E out \in CbcSolve(juice_vars, objective[1], constraints) :
        /\ status' = out.status
        /\ varValue' = out.values
        /\ solveLog' = Append(solveLog,
                [rhs |-> Rhs(constraints), status |-> out.status,
                 objective |-> ObjectiveValue(objective[1], out.values)])

\* cell 11, model.solve()
Solve ==
    /\ pc = "ready"
    /\ runs < MaxRuns
    /\ runs' = runs + 1
    /\ ModelSolve
    /\ pc' = "cell11_print"
    /\ UNCHANGED <<inputs, raised, juice_vars, objective, constraints, results,
                   sensitivity_results, stdout, resultsAt, sensitivityAt,
                   lastChange>>

\* cell 11, print(f"Status: {LpStatus[model.status]}")
PrintStatus ==
    /\ pc = "cell11_print"
    /\ stdout' = Append(stdout, status)
    /\ pc' = "cell11_extract"
    /\ UNCHANGED <<inputs, raised, juice_vars, varValue, objective, constraints, status,
                   results, sensitivity_results, runs, history>>

\* cell 11, results = {...}; results['Total Profit'] = value(model.objective)
ExtractResults ==
    /\ pc = "cell11_extract"
    /\ results' = <<ExtractDict(data, objective[1], varValue)>>
    /\ resultsAt' = Len(solveLog)
    /\ pc' = "ready"
    /\ UNCHANGED <<inputs, raised, juice_vars, varValue, objective, constraints, status,
                   sensitivity_results, stdout, runs, solveLog, sensitivityAt,
                   lastChange>>

\* the budget cell 15 adds its increase to
BudgetOf(name) ==
    IF name = "Machine_Time" THEN max_machine_time ELSE max_labor_time

\* cell 15, model.constraints[name].changeRHS(budget + increase); the lookup
\* of a name that is not a key raises KeyError and the cell ends there
ChangeRHS ==
    /\ pc = "ready"
    /\ runs < MaxRuns
    /\ runs' = runs + 1
    /\ IF HasKey(constraints, request.name)
       THEN LET newRhs == BudgetOf(request.name) + request.increase
            IN /\ constraints' = SetRhs(constraints, request.name, newRhs)
               /\ lastChange' = <<[name |-> request.name, rhs |-> newRhs]>>
               /\ pc' = "cell15_solve"
               /\ UNCHANGED raised
       ELSE /\ raised' = Append(raised, "KeyError")
            /\ UNCHANGED <<constraints, lastChange, pc>>
    /\ UNCHANGED <<inputs, juice_vars, varValue, objective, status, results,
                   sensitivity_results, stdout, solveLog, resultsAt,
                   sensitivityAt>>

\* cell 15, model.solve()
ReSolve ==
    /\ pc = "cell15_solve"
    /\ ModelSolve
    /\ pc' = "cell15_extract"
    /\ UNCHANGED <<inputs, raised, juice_vars, objective, constraints, results,
                   sensitivity_results, stdout, runs, resultsAt, sensitivityAt,
                   lastChange>>

\* cell 15, sensitivity_results = {...}; sensitivity_results['Total Profit'] = ...
ExtractSensitivity ==
    /\ pc = "cell15_extract"
    /\ LET dict == <<ExtractDict(data, objective[1], varValue)>>
       IN IF Cell15Target = "sensitivity_results"
          THEN /\ sensitivity_results' = dict
               /\ sensitivityAt' = Len(solveLog)
               /\ UNCHANGED <<results, resultsAt>>
          ELSE /\ results' = dict
               /\ resultsAt' = Len(solveLog)
               /\ UNCHANGED <<sensitivity_results, sensitivityAt>>
    /\ pc' = "ready"
    /\ UNCHANGED <<inputs, raised, juice_vars, varValue, objective, constraints, status,
                   stdout, runs, solveLog, lastChange>>

Next ==
    \/ DefineModel
    \/ SetObjective
    \/ AddConstraints
    \/ Solve
    \/ PrintStatus
    \/ ExtractResults
    \/ ChangeRHS
    \/ ReSolve
    \/ ExtractSensitivity

\* any generic table, budgets and cell 15 literals
Spec == Init /\ [][Next]_vars

\* the notebook as written: its table, its budgets, its cell 15
SpecNotebook == InitNotebook /\ [][Next]_vars

\* the notebook as written or any generic table, budgets and cell 15 literals
InitEither == Init \/ InitNotebook

SpecEither == InitEither /\ [][Next]_vars

\* model.solve() when CBC stops before it has an answer: the status PuLP
\* reports is Not Solved and the variables hold whatever was left in them
ModelSolveStopped ==
    \E g \in Leftover(juice_vars) :
        /\ status' = "Not Solved"
        /\ varValue' = g
        /\ solveLog' = Append(solveLog,
                [rhs |-> Rhs(constraints), status |-> "Not Solved",
                 objective |-> ObjectiveValue(objective[1], g)])

\* cell 11, model.solve(), CBC stopping early
SolveStopped ==
    /\ pc = "ready"
    /\ runs < MaxRuns
    /\ runs' = runs + 1
    /\ ModelSolveStopped
    /\ pc' = "cell11_print"
    /\ UNCHANGED <<inputs, raised, juice_vars, objective, constraints, results,
                   sensitivity_results, stdout, resultsAt, sensitivityAt,
                   lastChange>>

\* cell 15, model.solve(), CBC stopping early
ReSolveStopped ==
    /\ pc = "cell15_solve"
    /\ ModelSolveStopped
    /\ pc' = "cell15_extract"
    /\ UNCHANGED <<inputs, raised, juice_vars, objective, constraints, results,
                   sensitivity_results, stdout, runs, resultsAt, sensitivityAt,
                   lastChange>>

NextStopping ==
    \/ Next
    \/ SolveStopped
    \/ ReSolveStopped

\* the notebook with a solver that may stop early at any solve
SpecStopping == Init /\ [][NextStopping]_vars

\* cells 5, 7 and 9 run on whatever the table and the budgets hold
InitAnyInput ==
    /\ data \in AnyData
    /\ max_machine_time \in (0 - 1)..MaxBudget
    /\ max_labor_time \in (0 - 1)..MaxBudget
    /\ request = [name |-> "Machine_Time", increase |-> 0]
    /\ InitRest

NextBuild ==
    \/ DefineModel
    \/ SetObjective
    \/ AddConstraints

SpecBuild == InitAnyInput /\ [][NextBuild]_vars

----------------------------------------------------------------------------
(* What the claims are stated over: the table and the budgets, not the model *)

\* the dicts bound so far, each with the solve it was extracted from
Dicts ==
    (IF results = <<>> THEN {}
     ELSE {[dict |-> results[1], solve |-> solveLog[resultsAt]]})
    \cup (IF sensitivity_results = <<>> THEN {}
          ELSE {[dict |-> sensitivity_results[1], solve |-> solveLog[sensitivityAt]]})

WellFormed ==
    /\ DOMAIN data # {}
    /\ \A p \in DOMAIN data :
          /\ data[p].MaxUnits >= 0
          /\ data[p].Profit >= 0
          /\ data[p].MachineTime >= 0
          /\ data[p].LaborTime >= 0
    /\ max_machine_time >= 0
    /\ max_labor_time >= 0

MachineUse(q) == Dot([p \in DOMAIN data |-> data[p].MachineTime], q)
LaborUse(q) == Dot([p \in DOMAIN data |-> data[p].LaborTime], q)
ProfitOf(q) == Dot([p \in DOMAIN data |-> data[p].Profit], q)

\* integer quantities within every product's cap
WithinCaps ==
    LET top == SetMax({data[p].MaxUnits : p \in DOMAIN data} \cup {0})
    IN {q \in [DOMAIN data -> 0..top] : \A p \in DOMAIN data : q[p] <= data[p].MaxUnits}

\* the quantities within the caps that fit both budgets
WithinBudgets(rhs) ==
    {q \in WithinCaps :
        MachineUse(q) <= rhs["Machine_Time"] /\ LaborUse(q) <= rhs["Labor_Time"]}

----------------------------------------------------------------------------
\* C1: whenever a solve reported Optimal, the Total Profit extracted from it is
\* the profit of some quantities within the caps and both budgets in force at
\* that solve, and no such quantities have a larger profit.
C1_OptimalIsMaximal ==
    WellFormed =>
        \A r \in Dicts :
            r.solve.status = "Optimal" =>
                /\ \E q \in WithinBudgets(r.solve.rhs) : ProfitOf(q) = r.dict.Total_Profit
                /\ \A q \in WithinBudgets(r.solve.rhs) : ProfitOf(q) <= r.dict.Total_Profit

\* an Optimal result with a positive profit where a budget rules out
\* more profitable quantities that the caps would allow
C1_Witness ==
    /\ results # <<>>
    /\ solveLog[resultsAt].status = "Optimal"
    /\ results[1].Total_Profit > 0
    /\ \E q \in WithinCaps : ProfitOf(q) > results[1].Total_Profit

\* C2: every dict extracted from an Optimal solve holds quantities between 0 and
\* the product's MaxUnits whose machine and labor use are within the right-hand
\* sides in force at that solve.
C2_OptimalIsFeasible ==
    WellFormed =>
        \A r \in Dicts :
            r.solve.status = "Optimal" =>
                /\ DOMAIN r.dict.quantities = DOMAIN data
                /\ \A p \in DOMAIN data :
                      r.dict.quantities[p] \in 0..data[p].MaxUnits
                /\ MachineUse(r.dict.quantities) <= r.solve.rhs["Machine_Time"]
                /\ LaborUse(r.dict.quantities) <= r.solve.rhs["Labor_Time"]

\* both dicts bound, from Optimal solves under different right-hand sides,
\* the second one using a budget in full
C2_Witness ==
    /\ results # <<>>
    /\ sensitivity_results # <<>>
    /\ solveLog[resultsAt].status = "Optimal"
    /\ solveLog[sensitivityAt].status = "Optimal"
    /\ solveLog[resultsAt].rhs # solveLog[sensitivityAt].rhs
    /\ MachineUse(sensitivity_results[1].quantities)
          = solveLog[sensitivityAt].rhs["Machine_Time"]
    /\ MachineUse(sensitivity_results[1].quantities) > 0

----------------------------------------------------------------------------
(* The worked example: the notebook's table, budgets 240 and 220, cell 15    *)
(* raising Machine_Time to 260                                               *)

RecordedResults ==
    [quantities |-> (AppleJuice :> 56) @@ (OrangeJuice :> 36) @@ (MixedFruitJuice :> 0),
     Total_Profit |-> 2480]

RecordedSensitivity ==
    [quantities |-> (AppleJuice :> 60) @@ (OrangeJuice :> 32) @@ (MixedFruitJuice :> 1),
     Total_Profit |-> 2500]

Quantities(a, o, m) == (AppleJuice :> a) @@ (OrangeJuice :> o) @@ (MixedFruitJuice :> m)

BaselineRhs == ("Machine_Time" :> MachineBudget) @@ ("Labor_Time" :> LaborBudget)

RaisedRhs ==
    ("Machine_Time" :> MachineBudget + MachineIncrease) @@ ("Labor_Time" :> LaborBudget)

\* C3: in the notebook, every dict extracted from a solve under the budgets
\* 240 and 220 comes from an Optimal solve and is Apple Juice 56, Orange Juice 36,
\* Mixed Fruit Juice 0, Total Profit 2480.
C3_Baseline ==
    \A r \in Dicts :
        r.solve.rhs = BaselineRhs =>
            r.solve.status = "Optimal" /\ r.dict = RecordedResults

\* cell 11 has run on the freshly built model
C3_Witness ==
    /\ results # <<>>
    /\ solveLog[resultsAt].rhs = BaselineRhs
    /\ pc = "ready"

\* C4 as stated: in the notebook, the dict cell 15 extracts after changeRHS to
\* 260 comes from an Optimal solve and is Apple Juice 60, Orange Juice 32,
\* Mixed Fruit Juice 1, Total Profit 2500.
C4_AsStated ==
    sensitivity_results # <<>> =>
        /\ solveLog[sensitivityAt].status = "Optimal"
        /\ sensitivity_results[1] = RecordedSensitivity

\* C4 amended: in the notebook, the dict cell 15 extracts after changeRHS to
\* 260 comes from an Optimal solve, has Total Profit 2500 and Apple Juice 60,
\* and its quantities are one of the four maximal assignments, 60/32/1 among
\* them.
C4_Resolve ==
    sensitivity_results # <<>> =>
        /\ solveLog[sensitivityAt].status = "Optimal"
        /\ sensitivity_results[1].Total_Profit = 2500
        /\ sensitivity_results[1].quantities \in
              {Quantities(60, 32, 1), Quantities(60, 28, 4),
               Quantities(60, 24, 7), Quantities(60, 20, 10)}

\* cell 11 then cell 15 have run and cell 15's dict is the recorded output
C4_Witness ==
    /\ results = <<RecordedResults>>
    /\ sensitivity_results = <<RecordedSensitivity>>
    /\ lastChange = <<[name |-> "Machine_Time", rhs |-> 260]>>
    /\ solveLog[sensitivityAt].rhs = RaisedRhs
    /\ resultsAt < sensitivityAt

----------------------------------------------------------------------------
(* Re-solving after changeRHS *)

\* cell 15 has just run to its end: its solve is the last one and another
\* solve came before it
AfterCell15 ==
    /\ pc = "ready"
    /\ sensitivity_results # <<>>
    /\ sensitivityAt = Len(solveLog)
    /\ Len(solveLog) >= 2

LastSolve == solveLog[Len(solveLog)]
SolveBefore == solveLog[Len(solveLog) - 1]

\* C5: when cell 15 asked for a Machine_Time right-hand side above the one of
\* the previous solve and both solves were Optimal, cell 15's Total Profit is at
\* least the previous solve's objective value.
C5_BudgetMonotone ==
    (/\ AfterCell15
     /\ lastChange[1].name = "Machine_Time"
     /\ lastChange[1].rhs > SolveBefore.rhs["Machine_Time"]
     /\ SolveBefore.status = "Optimal"
     /\ LastSolve.status = "Optimal")
    => sensitivity_results[1].Total_Profit >= SolveBefore.objective

\* the raised Machine_Time budget bought a strictly larger profit
C5_Witness ==
    /\ AfterCell15
    /\ lastChange[1].name = "Machine_Time"
    /\ lastChange[1].rhs > SolveBefore.rhs["Machine_Time"]
    /\ SolveBefore.status = "Optimal"
    /\ LastSolve.status = "Optimal"
    /\ sensitivity_results[1].Total_Profit > SolveBefore.objective

\* C6: no statement of cell 15 (changeRHS, solve, extraction) changes the dict
\* that cell 11 bound to results.
C6_FirstResultKept ==
    [][((pc' \in {"cell15_solve", "cell15_extract"} \/ pc = "cell15_extract")
        /\ results # <<>>)
       => results' = results]_vars

\* cell 11 then cell 15 have run, the variables now hold cell 15's solution and
\* results still holds a different one
C6_Witness ==
    /\ AfterCell15
    /\ results # <<>>
    /\ resultsAt < sensitivityAt
    /\ varValue = sensitivity_results[1].quantities
    /\ varValue # results[1].quantities
    /\ results[1].Total_Profit # sensitivity_results[1].Total_Profit

\* C7: changeRHS on the constraint called name leaves the variables and their
\* bounds, the objective, the set of constraints, both left-hand sides and the
\* other constraint's right-hand side as they were, and sets the named
\* right-hand side to the new value.
C7_OnlyTheNamedRhs ==
    [][(pc = "ready" /\ pc' = "cell15_solve")
       => /\ juice_vars' = juice_vars
          /\ objective' = objective
          /\ DOMAIN constraints' = DOMAIN constraints
          /\ \A c \in DOMAIN constraints :
                /\ constraints'[c].lhs = constraints[c].lhs
                /\ c # lastChange'[1].name => constraints'[c].rhs = constraints[c].rhs
          /\ constraints'[lastChange'[1].name].rhs = lastChange'[1].rhs]_vars

\* changeRHS has just given one constraint a right-hand side that is neither
\* its old one nor the other constraint's
C7_Witness ==
    /\ pc = "cell15_solve"
    /\ lastChange[1].rhs # BudgetOf(lastChange[1].name)
    /\ \A c \in DOMAIN constraints :
          c # lastChange[1].name => constraints[c].rhs # lastChange[1].rhs

\* C8: when cell 15 asked for the right-hand side the named constraint already
\* had at the previous solve, its solve ends with the same status, and when
\* that status is Optimal its Total Profit is the previous objective value.
C8_IdempotentResolve ==
    (/\ AfterCell15
     /\ lastChange[1].rhs = SolveBefore.rhs[lastChange[1].name])
    => /\ LastSolve.status = SolveBefore.status
       /\ LastSolve.rhs = SolveBefore.rhs
       /\ LastSolve.status = "Optimal"
             => sensitivity_results[1].Total_Profit = SolveBefore.objective

\* cell 11 then cell 15 with increase 0: two Optimal solves of the same model
\* with a positive profit, returning different quantities
C8_Witness ==
    /\ AfterCell15
    /\ lastChange[1].rhs = SolveBefore.rhs[lastChange[1].name]
    /\ LastSolve.status = "Optimal"
    /\ sensitivity_results[1].Total_Profit > 0
    /\ results # <<>>
    /\ resultsAt = Len(solveLog) - 1
    /\ results[1].quantities # sensitivity_results[1].quantities

----------------------------------------------------------------------------
(* The model cells 5, 7 and 9 build *)

\* C9: for a well-formed table and budgets, once cell 5 has run juice_vars has
\* exactly the table's products as keys, each an Integer variable with bounds
\* 0 and the product's MaxUnits; once cell 7 has run the objective ranges over
\* exactly those products; once cell 9 has run the constraints are Machine_Time
\* and Labor_Time and both range over exactly those products.
C9_BuildValid ==
    WellFormed =>
        /\ pc # "cell5" =>
              /\ DOMAIN juice_vars = DOMAIN data
              /\ \A p \in DOMAIN data :
                    /\ juice_vars[p].lowBound = 0
                    /\ juice_vars[p].upBound = data[p].MaxUnits
                    /\ juice_vars[p].cat = "Integer"
        /\ pc \notin {"cell5", "cell7"} =>
              /\ objective # <<>>
              /\ DOMAIN objective[1].coeffs = DOMAIN data
        /\ pc \notin {"cell5", "cell7", "cell9"} =>
              /\ DOMAIN constraints = ConstraintNames
              /\ \A c \in ConstraintNames : DOMAIN constraints[c].lhs = DOMAIN data

\* the build has finished on a table whose products have different caps
C9_Witness ==
    /\ pc = "ready"
    /\ runs = 0
    /\ \E p, r \in DOMAIN data : data[p].MaxUnits > data[r].MaxUnits

----------------------------------------------------------------------------
(* Solves that end with another status than Optimal *)

\* C10 as stated: a dict extracted from a solve whose status is not Optimal
\* holds neither per-product quantities nor an objective value.
C10_FailedSolveHasNoValues ==
    \A r \in Dicts :
        r.solve.status # "Optimal" =>
            /\ "quantities" \notin DOMAIN r.dict
            /\ "Total_Profit" \notin DOMAIN r.dict

----------------------------------------------------------------------------
(* Degenerate models: a zero budget, caps that are all zero *)

\* the table's column a constraint is built from
ResourceColumn(c) ==
    IF c = "Machine_Time" THEN [p \in DOMAIN data |-> data[p].MachineTime]
                          ELSE [p \in DOMAIN data |-> data[p].LaborTime]

\* a solve under right-hand sides where a resource every product needs has
\* budget 0, the other budget is not negative and every cap is positive
ZeroBudgetCase(rhs) ==
    /\ \A p \in DOMAIN data : data[p].MaxUnits > 0
    /\ \A c \in ConstraintNames : rhs[c] >= 0
    /\ \E c \in ConstraintNames :
          /\ rhs[c] = 0
          /\ \A p \in DOMAIN data : ResourceColumn(c)[p] > 0

\* C14: when every cap is positive, a resource whose coefficients are all
\* strictly positive has budget 0 and the other budget is not negative, the
\* solve ends Optimal (never Infeasible) with objective value 0, and the dict
\* extracted from it has quantity 0 for every product.
C14_ZeroBudgetIsOptimal ==
    /\ \A i \in 1..Len(solveLog) :
          ZeroBudgetCase(solveLog[i].rhs) =>
              solveLog[i].status = "Optimal" /\ solveLog[i].objective = 0
    /\ \A r \in Dicts :
          ZeroBudgetCase(r.solve.rhs) =>
              \A p \in DOMAIN data : r.dict.quantities[p] = 0

\* a dict extracted under a zero budget that alone forces the zero plan: every
\* product has a positive profit and cap, and the other budget is positive
C14_Witness ==
    \E r \in Dicts :
        /\ ZeroBudgetCase(r.solve.rhs)
        /\ \E c \in ConstraintNames : r.solve.rhs[c] > 0
        /\ \A p \in DOMAIN data : data[p].Profit > 0
        /\ r.solve.status = "Optimal"
        /\ \A p \in DOMAIN data : r.dict.quantities[p] = 0

\* a solve under right-hand sides that are not negative, of a table whose caps
\* are all 0
ZeroCapsCase(rhs) ==
    /\ \A p \in DOMAIN data : data[p].MaxUnits = 0
    /\ \A c \in ConstraintNames : rhs[c] >= 0

\* C15: when every MaxUnits is 0 and neither budget is negative, the solve ends
\* Optimal with objective value 0, the all-zero quantities are the only ones
\* within the caps and the budgets, and the dict extracted has quantity 0 for
\* every product and Total Profit 0.
C15_ZeroCapsIsOptimal ==
    /\ \A i \in 1..Len(solveLog) :
          ZeroCapsCase(solveLog[i].rhs) =>
              /\ solveLog[i].status = "Optimal"
              /\ solveLog[i].objective = 0
              /\ WithinBudgets(solveLog[i].rhs) = {[p \in DOMAIN data |-> 0]}
    /\ \A r \in Dicts :
          ZeroCapsCase(r.solve.rhs) =>
              /\ \A p \in DOMAIN data : r.dict.quantities[p] = 0
              /\ r.dict.Total_Profit = 0

\* a dict extracted from a table with zero caps whose products have positive
\* profits, under positive budgets
C15_Witness ==
    \E r \in Dicts :
        /\ ZeroCapsCase(r.solve.rhs)
        /\ \A c \in ConstraintNames : r.solve.rhs[c] > 0
        /\ \A p \in DOMAIN data : data[p].Profit > 0
        /\ r.dict.Total_Profit = 0

----------------------------------------------------------------------------
(* The right-hand side set by cell 15 stays *)

\* the right-hand sides the model has once cell 15 has changed one of them
ChangedRhs ==
    [c \in ConstraintNames |->
        IF c = lastChange[1].name THEN lastChange[1].rhs ELSE BudgetOf(c)]

\* C17: once cell 15 has set a constraint's right-hand side to r, the model
\* keeps r there and the build-time budget on the other constraint: every
\* solve from then on, cell 15's own and each later run of cell 11, is computed
\* against them, and no solve after one computed against them is computed
\* against anything else.  In the notebook, where r is 260 on Machine_Time,
\* every such solve ends Optimal with objective 2500, and a dict that cell 11
\* extracts after cell 15 has Total Profit 2500, not 2480.
C17_RaisedRhsPersists ==
    /\ (lastChange # <<>> /\ pc # "cell15_solve") =>
          /\ Rhs(constraints) = ChangedRhs
          /\ LastSolve.rhs = ChangedRhs
          /\ \A i, j \in 1..Len(solveLog) :
                (i < j /\ solveLog[i].rhs = ChangedRhs) => solveLog[j].rhs = ChangedRhs
    /\ (data = NotebookData /\ lastChange # <<>> /\ pc # "cell15_solve") =>
          /\ ChangedRhs = RaisedRhs
          /\ LastSolve.status = "Optimal"
          /\ LastSolve.objective = 2500
          /\ (results # <<>> /\ resultsAt > sensitivityAt /\ sensitivityAt > 0)
                => results[1].Total_Profit = 2500

\* cell 15 ran first, then cell 11 was run again: its dict is a maximal plan
\* of the raised model
C17_Witness ==
    /\ data = NotebookData
    /\ pc = "ready"
    /\ lastChange = <<[name |-> "Machine_Time", rhs |-> 260]>>
    /\ sensitivityAt = 1
    /\ resultsAt = 2
    /\ solveLog[2].rhs = RaisedRhs
    /\ results[1].Total_Profit = 2500
    /\ results[1].Total_Profit # RecordedResults.Total_Profit

----------------------------------------------------------------------------
(* Cell 15 naming a constraint the model does not have *)

\* C12: a run of cell 15 whose name is not a constraint of the model ends with
\* a KeyError at the lookup: every constraint keeps its left- and right-hand
\* side, the variables, their values, the objective, the status and both dicts
\* stay as they were, and no solve is performed.
C12_UnknownNameChangesNothing ==
    [][(pc = "ready" /\ pc' # "cell11_print" /\ request.name \notin ConstraintNames)
       => /\ raised' = Append(raised, "KeyError")
          /\ pc' = "ready"
          /\ constraints' = constraints
          /\ juice_vars' = juice_vars
          /\ objective' = objective
          /\ varValue' = varValue
          /\ status' = status
          /\ solveLog' = solveLog
          /\ results' = results
          /\ sensitivity_results' = sensitivity_results
          /\ lastChange' = lastChange]_vars

\* cell 11 ran, then cell 15 failed on its name: the model still has its
\* build-time right-hand sides and one solve has been made
C12_Witness ==
    /\ raised = <<"KeyError">>
    /\ request.name = OtherName
    /\ request.increase # 0
    /\ results # <<>>
    /\ Len(solveLog) = 1
    /\ Rhs(constraints) = [c \in ConstraintNames |-> BudgetOf(c)]
    /\ sensitivity_results = <<>>

----------------------------------------------------------------------------
(* Cells 5, 7 and 9 on inputs nothing has vetted *)

\* a negative cap or a negative budget
InvalidInput ==
    \/ \E p \in DOMAIN data : data[p].MaxUnits < 0
    \/ max_machine_time < 0
    \/ max_labor_time < 0

\* C11 as stated: when a cap or a budget is negative, cell 5 ends with an
\* exception and leaves no variable, no objective and no constraint: the cap is
\* not kept as a bound and no model exists that could be solved.
C11_InvalidInputRejected ==
    (InvalidInput /\ pc # "cell5") =>
        /\ raised # <<>>
        /\ juice_vars = <<>>
        /\ objective = <<>>
        /\ constraints = <<>>

\* two products whose names replace(' ', '_') maps to the same variable name
Colliding ==
    \E p, r \in DOMAIN data : p # r /\ Sanitize(p) = Sanitize(r)

\* C13 as stated: when two products of the table have names that differ only
\* in spaces against underscores, cell 5 ends with an exception and juice_vars
\* never holds two variables of the same name.
C13_CollisionRejected ==
    (Colliding /\ pc # "cell5") =>
        /\ raised # <<>>
        /\ \A p, r \in DOMAIN juice_vars :
              p # r => juice_vars[p].name # juice_vars[r].name

----------------------------------------------------------------------------
(* The status cell 11 prints *)

ClosedStatusSet == {"Optimal", "Infeasible", "Unbounded", "Error"}

\* C16 as stated: every status line cell 11 has printed after a solve is one
\* of Optimal, Infeasible, Unbounded, Error, whatever status the solver
\* reported.
C16_ClosedStatusSet ==
    \A i \in 1..Len(stdout) : stdout[i] \in ClosedStatusSet

====
